---- MODULE Spec2Model ----
(***************************************************************************)
(* A model of the Foodiee recipe dashboard:                                *)
(*   - SpecificGenerationTab (components/recipe-admin/                     *)
(*     SpecificGenerationTab.tsx): start a generation job, then poll the   *)
(*     jobs and logs endpoints from a 2-second interval timer;             *)
(*   - DataManagerTab (app/preferences/page.tsx): list, search, select,    *)
(*     edit and save recipes.                                              *)
(*   - PreferencesPage (app/preferences/page.tsx): the preferences form    *)
(*     and the chat interface.                                             *)
(* Every asynchronous request is a message in flight: it is sent by a      *)
(* handler, served by the backend (or fails), and its response is          *)
(* delivered to the continuation of the handler in a later step.           *)
(***************************************************************************)
EXTENDS Integers, Sequences, FiniteSets, Bags

(***************************************************************************)
(* Bounds of the model.                                                    *)
(***************************************************************************)
\* generation runs (handleGenerate calls) in one behaviour
MaxRuns == 1
\* poll cycles of one interval timer that are in flight at the same time
MaxInFlight == 2
\* jobs the backend holds (this session's and other sessions')
MaxJobs == 2
\* log entries the backend appends to one job
MaxLogs == 1

Runs == 1..MaxRuns

(***************************************************************************)
(* Program constants.                                                      *)
(***************************************************************************)
\* getJobLogs(latestJob.id, 20)
LogsLimit == 20

\* a status list that leaves 'cancelled' out
StatusesWithoutCancelled == {"completed", "failed"}

\* ['completed', 'failed', 'cancelled'].includes(latestJob.status)
TerminalStatuses == {"completed", "failed", "cancelled"}

\* GenerationJob.status, owned by the backend
JobStatuses == {"running", "completed", "failed", "cancelled"}

\* the five "What to Fix/Generate" checkboxes
FixOptions == {"fixMainImage", "fixIngredientsImage", "fixStepsImages",
               "fixStepsText", "fixIngredientsText"}

Min(a, b) == IF a < b THEN a ELSE b

\* useState<{type, text} | null>(null)
NoMessage == [type |-> "null", text |-> ""]

VARIABLES
    \* ---- environment --------------------------------------------------
    netUp,            \* the backend is reachable: a request sent now is served
    jobs,             \* backend: the jobs, oldest first; the last is the most recent
    jobLogs,          \* backend: number of log entries appended to each job
    console,          \* what console.error has printed (set of prefixes)
    \* ---- SpecificGenerationTab ----------------------------------------
    mounted,          \* the SpecificGenerationTab view is mounted
    sgSelectedRecipe, \* selectedRecipe (a recipe name, or "null")
    fix,              \* the checked fix options (fixMainImage, ...)
    isGenerating,
    logs,             \* displayed logs: set of <<job id, index>>
    message,          \* NoMessage (null) or [type, text]
    runs,             \* each run's start request and interval timer
    cycles,           \* bag of poll cycles (interval callbacks) in flight
    tickedUnmounted,  \* history: the timer has fired since the view unmounted
    runJob,           \* history: the id of the job each run's start request created (0: none)
    startReq,         \* the body of each run's startSpecificGeneration request
    sgSearchQuery,    \* searchQuery of the SpecificGenerationTab
    sgSearchResults,  \* searchResults: the names of the recipes found
    sgIsSearching,    \* isSearching: a searchRecipes request is in flight
    \* ---- DataManagerTab ------------------------------------------------
    db,               \* backend: the recipe table, by id
    recipes,          \* the loaded page of the list
    statistics,
    selectedRecipe,   \* NoRecipe (null) or a recipe record
    isEditing,
    editedFields,     \* the overlay: a function from field names to values
    page,
    loading,
    filter,
    searchQuery,
    searchResults,
    isSearching,
    alert,            \* the blocking alert dialog that is open, or NoAlert
    listReqs,         \* bag of listRecipes requests in flight
    statsReqs,        \* number of getStatistics requests in flight
    searchReqs,       \* bag of searchRecipes requests in flight
    updateReqs,       \* bag of updateRecipe requests in flight
    edits,            \* number of field edits since Edit was pressed
    saves,            \* number of updateRecipe requests sent
    imgSrc,           \* DOM: the src an image's onError handler has assigned, by element
    editOrigin,       \* history: the id of the recipe selected when Edit was pressed (0: not editing)
    \* ---- PreferencesPage ----------------------------------------------
    step,             \* "preferences" or "chat"
    sessionId,
    recommendations

envVars == <<netUp, jobs, jobLogs, console>>
sgSearchVars == <<sgSearchQuery, sgSearchResults, sgIsSearching>>
sgVars == <<mounted, sgSelectedRecipe, fix, isGenerating, logs, message,
            runs, cycles, tickedUnmounted, runJob, startReq, sgSearchVars>>
dmVars == <<db, recipes, statistics, selectedRecipe, isEditing, editedFields,
            page, loading, filter, searchQuery, searchResults, isSearching,
            alert, listReqs, statsReqs, searchReqs, updateReqs, edits, saves,
            imgSrc, editOrigin>>
ppVars == <<step, sessionId, recommendations>>
vars == <<envVars, sgVars, dmVars, ppVars>>

(***************************************************************************)
(* Backend (external service): what the endpoints answer.                  *)
(***************************************************************************)
\* GET /api/recipe-admin/jobs?limit=1 : the most recent job, or none (0)
LatestJobId == Len(jobs)

LatestJobStatus == IF jobs = <<>> THEN "none" ELSE jobs[Len(jobs)]

\* getJobLogs(id, limit).logs : at most `limit` entries of job `id`
JobLogsResponse(id, limit) == Min(jobLogs[id], limit)

\* the log entries a response of n entries of job id holds
LogEntries(id, n) == {<<id, i>> : i \in 1..n}

(***************************************************************************)
(* SpecificGenerationTab                                                   *)
(***************************************************************************)
RECURSIVE SumCopies(_, _)
SumCopies(B, S) ==
    IF S = {} THEN 0
    ELSE LET c == CHOOSE x \in S : TRUE
         IN B[c] + SumCopies(B, S \ {c})

\* poll cycles of run r's timer that have not finished
InFlight(r) == SumCopies(cycles, {c \in BagToSet(cycles) : c.run = r})

NewCycle(r) == [run |-> r, pc |-> "jobsSent", job |-> 0, status |-> "none", n |-> 0]

Put(c) == cycles (+) SetToBag({c})
Take(c) == cycles (-) SetToBag({c})
Move(c, d) == (cycles (-) SetToBag({c})) (+) SetToBag({d})

atLeastOneOptionSelected == fix # {}

\* the message banner is rendered inside the {selectedRecipe && ...} block
BannerDisplayed == mounted /\ sgSelectedRecipe # "null" /\ message # NoMessage

TimerActive(r) == runs[r] = "polling"

\* no request sent
NoRequest == [recipe_name |-> "null", fix |-> {}]

\* the body of the start request: recipe_name: selectedRecipe.name and the
\* five fix_* flags (here: the set of the flags that are true)
StartRequest == [recipe_name |-> sgSelectedRecipe, fix |-> fix]

\* a Start button that would not require a ticked option
handleGenerateAnyOptions(r) ==
    /\ mounted
    /\ sgSelectedRecipe # "null"
    /\ ~isGenerating
    /\ runs[r] = "unused"
    /\ \A q \in DOMAIN runs : q < r => runs[q] # "unused"
    /\ isGenerating' = TRUE
    /\ logs' = {}
    /\ message' = NoMessage
    /\ runs' = [runs EXCEPT ![r] = "starting"]
    /\ UNCHANGED <<mounted, sgSelectedRecipe, fix, cycles, tickedUnmounted>>
    /\ UNCHANGED envVars
    /\ UNCHANGED <<sgSearchVars, dmVars>>
    /\ UNCHANGED runJob
    /\ startReq' = [startReq EXCEPT ![r] = StartRequest]
    /\ UNCHANGED ppVars

\* handleGenerate up to the await of startSpecificGeneration
handleGenerate(r) ==
    /\ mounted
    /\ sgSelectedRecipe # "null"
    /\ ~isGenerating /\ atLeastOneOptionSelected
    /\ runs[r] = "unused"
    /\ \A q \in DOMAIN runs : q < r => runs[q] # "unused"
    /\ isGenerating' = TRUE
    /\ logs' = {}
    /\ message' = NoMessage
    /\ runs' = [runs EXCEPT ![r] = "starting"]
    /\ UNCHANGED <<mounted, sgSelectedRecipe, fix, cycles, tickedUnmounted>>
    /\ UNCHANGED envVars
    /\ UNCHANGED <<sgSearchVars, dmVars>>
    /\ UNCHANGED runJob
    /\ startReq' = [startReq EXCEPT ![r] = StartRequest]
    /\ UNCHANGED ppVars

\* startSpecificGeneration resolves: the backend has created the job;
\* const interval = setInterval(..., 2000)
StartOk(r) ==
    /\ runs[r] = "starting"
    /\ netUp
    /\ Len(jobs) < MaxJobs
    /\ jobs' = Append(jobs, "running")
    /\ jobLogs' = Append(jobLogs, 0)
    /\ runs' = [runs EXCEPT ![r] = "polling"]
    /\ UNCHANGED <<netUp, console>>
    /\ UNCHANGED <<mounted, sgSelectedRecipe, fix, isGenerating, logs, message,
                   cycles, tickedUnmounted>>
    /\ UNCHANGED <<sgSearchVars, dmVars>>
    /\ runJob' = [runJob EXCEPT ![r] = Len(jobs) + 1]
    /\ UNCHANGED startReq
    /\ UNCHANGED ppVars

\* what a rejected request throws: an Error with a message (thrown by the
\* API client or by fetch), or a value that is not an Error
Rejections ==
    {[isError |-> TRUE, message |-> "Failed to fetch"],
     [isError |-> TRUE, message |-> "NetworkError when attempting to fetch resource."],
     [isError |-> FALSE, message |-> ""]}

\* error instanceof Error ? error.message : fallback
ErrorText(error, fallback) == IF error.isError THEN error.message ELSE fallback

\* an outer catch that would leave isGenerating set
StartFailKeepsGenerating(r) ==
    /\ runs[r] = "starting"
    /\ ~netUp
    /\ \E error \in Rejections :
          message' = [type |-> "error", text |-> ErrorText(error, "Generation failed")]
    /\ runs' = [runs EXCEPT ![r] = "startFailed"]
    /\ UNCHANGED <<mounted, sgSelectedRecipe, fix, isGenerating, logs, cycles,
                   tickedUnmounted>>
    /\ UNCHANGED envVars
    /\ UNCHANGED <<sgSearchVars, dmVars>>
    /\ UNCHANGED runJob
    /\ UNCHANGED startReq
    /\ UNCHANGED ppVars

\* startSpecificGeneration rejects: the outer catch sets the message to the
\* error's message, or to 'Generation failed' when it is not an Error
StartFail(r) ==
    /\ runs[r] = "starting"
    /\ ~netUp
    /\ \E error \in Rejections :
          message' = [type |-> "error", text |-> ErrorText(error, "Generation failed")]
    /\ isGenerating' = FALSE
    /\ runs' = [runs EXCEPT ![r] = "startFailed"]
    /\ UNCHANGED <<mounted, sgSelectedRecipe, fix, logs, cycles, tickedUnmounted>>
    /\ UNCHANGED envVars
    /\ UNCHANGED <<sgSearchVars, dmVars>>
    /\ UNCHANGED runJob
    /\ UNCHANGED startReq
    /\ UNCHANGED ppVars

\* the interval fires: the callback starts and sends the jobs request
Tick(r) ==
    /\ TimerActive(r)
    /\ InFlight(r) < MaxInFlight
    /\ cycles' = Put(NewCycle(r))
    /\ tickedUnmounted' = (tickedUnmounted \/ ~mounted)
    /\ UNCHANGED <<mounted, sgSelectedRecipe, fix, isGenerating, logs, message, runs>>
    /\ UNCHANGED envVars
    /\ UNCHANGED <<sgSearchVars, dmVars>>
    /\ UNCHANGED runJob
    /\ UNCHANGED startReq
    /\ UNCHANGED ppVars

\* the backend answers the jobs request
ServeJobs(c) ==
    /\ BagIn(c, cycles) /\ c.pc = "jobsSent"
    /\ netUp
    /\ cycles' = Move(c, [c EXCEPT !.pc = "jobsReady", !.job = LatestJobId,
                                   !.status = LatestJobStatus])
    /\ UNCHANGED <<mounted, sgSelectedRecipe, fix, isGenerating, logs, message,
                   runs, tickedUnmounted>>
    /\ UNCHANGED envVars
    /\ UNCHANGED <<sgSearchVars, dmVars>>
    /\ UNCHANGED runJob
    /\ UNCHANGED startReq
    /\ UNCHANGED ppVars

\* a catch that would also clear the interval
FailJobsClearsTimer(c) ==
    /\ BagIn(c, cycles) /\ c.pc = "jobsSent"
    /\ ~netUp
    /\ cycles' = Take(c)
    /\ console' = console \cup {"Polling error:"}
    /\ runs' = [runs EXCEPT ![c.run] = "cleared"]
    /\ UNCHANGED <<mounted, sgSelectedRecipe, fix, isGenerating, logs, message,
                   tickedUnmounted>>
    /\ UNCHANGED <<netUp, jobs, jobLogs>>
    /\ UNCHANGED <<sgSearchVars, dmVars>>
    /\ UNCHANGED runJob
    /\ UNCHANGED startReq
    /\ UNCHANGED ppVars

\* the jobs request fails: catch (error) { console.error('Polling error:', error) }
FailJobs(c) ==
    /\ BagIn(c, cycles) /\ c.pc = "jobsSent"
    /\ ~netUp
    /\ cycles' = Take(c)
    /\ console' = console \cup {"Polling error:"}
    /\ UNCHANGED <<mounted, sgSelectedRecipe, fix, isGenerating, logs, message,
                   runs, tickedUnmounted>>
    /\ UNCHANGED <<netUp, jobs, jobLogs>>
    /\ UNCHANGED <<sgSearchVars, dmVars>>
    /\ UNCHANGED runJob
    /\ UNCHANGED startReq
    /\ UNCHANGED ppVars

\* the jobs response arrives: if (jobs.jobs && jobs.jobs.length > 0)
\* the callback calls getJobLogs(latestJob.id, 20); otherwise it ends
DeliverJobs(c) ==
    /\ BagIn(c, cycles) /\ c.pc = "jobsReady"
    /\ cycles' = IF c.job = 0 THEN Take(c)
                 ELSE Move(c, [c EXCEPT !.pc = "logsSent"])
    /\ UNCHANGED <<mounted, sgSelectedRecipe, fix, isGenerating, logs, message,
                   runs, tickedUnmounted>>
    /\ UNCHANGED envVars
    /\ UNCHANGED <<sgSearchVars, dmVars>>
    /\ UNCHANGED runJob
    /\ UNCHANGED startReq
    /\ UNCHANGED ppVars

\* the backend answers the logs request
ServeLogs(c) ==
    /\ BagIn(c, cycles) /\ c.pc = "logsSent"
    /\ netUp
    /\ cycles' = Move(c, [c EXCEPT !.pc = "logsReady",
                                   !.n = JobLogsResponse(c.job, LogsLimit)])
    /\ UNCHANGED <<mounted, sgSelectedRecipe, fix, isGenerating, logs, message,
                   runs, tickedUnmounted>>
    /\ UNCHANGED envVars
    /\ UNCHANGED <<sgSearchVars, dmVars>>
    /\ UNCHANGED runJob
    /\ UNCHANGED startReq
    /\ UNCHANGED ppVars

\* a catch that would send the logs request again
FailLogsRetries(c) ==
    /\ BagIn(c, cycles) /\ c.pc = "logsSent"
    /\ ~netUp
    /\ cycles' = cycles
    /\ console' = console \cup {"Polling error:"}
    /\ UNCHANGED <<mounted, sgSelectedRecipe, fix, isGenerating, logs, message,
                   runs, tickedUnmounted>>
    /\ UNCHANGED <<netUp, jobs, jobLogs>>
    /\ UNCHANGED <<sgSearchVars, dmVars>>
    /\ UNCHANGED runJob
    /\ UNCHANGED startReq
    /\ UNCHANGED ppVars

\* getJobLogs rejects: the same catch
FailLogs(c) ==
    /\ BagIn(c, cycles) /\ c.pc = "logsSent"
    /\ ~netUp
    /\ cycles' = Take(c)
    /\ console' = console \cup {"Polling error:"}
    /\ UNCHANGED <<mounted, sgSelectedRecipe, fix, isGenerating, logs, message,
                   runs, tickedUnmounted>>
    /\ UNCHANGED <<netUp, jobs, jobLogs>>
    /\ UNCHANGED <<sgSearchVars, dmVars>>
    /\ UNCHANGED runJob
    /\ UNCHANGED startReq
    /\ UNCHANGED ppVars

\* a terminal branch that would report every status but 'failed' as a success
TerminalMessageUnlessFailed(status) ==
    [type |-> IF status # "failed" THEN "success" ELSE "error",
     text |-> IF status # "failed" THEN "Recipe updated successfully!"
              ELSE "Generation failed. Check logs for details."]

\* the message of the terminal branch
TerminalMessage(status) ==
    [type |-> IF status = "completed" THEN "success" ELSE "error",
     text |-> IF status = "completed" THEN "Recipe updated successfully!"
              ELSE "Generation failed. Check logs for details."]

\* the logs response arrives: setLogs(logsResponse.logs), then the terminal check
DeliverLogs(c) ==
    /\ BagIn(c, cycles) /\ c.pc = "logsReady"
    /\ cycles' = Take(c)
    /\ logs' = LogEntries(c.job, c.n)
    /\ IF c.status \in TerminalStatuses
       THEN /\ runs' = [runs EXCEPT ![c.run] = "cleared"]
            /\ isGenerating' = FALSE
            /\ message' = TerminalMessage(c.status)
       ELSE UNCHANGED <<runs, isGenerating, message>>
    /\ UNCHANGED <<mounted, sgSelectedRecipe, fix, tickedUnmounted>>
    /\ UNCHANGED envVars
    /\ UNCHANGED <<sgSearchVars, dmVars>>
    /\ UNCHANGED runJob
    /\ UNCHANGED startReq
    /\ UNCHANGED ppVars

\* an unmount with a cleanup that would clear the interval
UnmountClearsTimers ==
    /\ mounted
    /\ mounted' = FALSE
    /\ runs' = [r \in Runs |-> IF runs[r] = "polling" THEN "cleared" ELSE runs[r]]
    /\ UNCHANGED <<sgSelectedRecipe, fix, isGenerating, logs, message,
                   cycles, tickedUnmounted>>
    /\ UNCHANGED envVars
    /\ UNCHANGED <<sgSearchVars, dmVars>>
    /\ UNCHANGED runJob
    /\ UNCHANGED startReq
    /\ UNCHANGED ppVars

\* the view is removed; the component registers no cleanup
Unmount ==
    /\ mounted
    /\ mounted' = FALSE
    /\ UNCHANGED <<sgSelectedRecipe, fix, isGenerating, logs, message, runs,
                   cycles, tickedUnmounted>>
    /\ UNCHANGED envVars
    /\ UNCHANGED <<sgSearchVars, dmVars>>
    /\ UNCHANGED runJob
    /\ UNCHANGED startReq
    /\ UNCHANGED ppVars

(***************************************************************************)
(* Environment: the backend's jobs and the network.                        *)
(***************************************************************************)
\* the backend moves a running job to a status in which it stays
JobEnds(j, s) ==
    /\ j \in 1..Len(jobs) /\ jobs[j] = "running"
    /\ s \in JobStatuses \ {"running"}
    /\ jobs' = [jobs EXCEPT ![j] = s]
    /\ UNCHANGED <<netUp, jobLogs, console>>
    /\ UNCHANGED sgVars
    /\ UNCHANGED dmVars
    /\ UNCHANGED ppVars

\* the backend appends a log entry to a running job
JobLogs(j) ==
    /\ j \in 1..Len(jobs) /\ jobs[j] = "running"
    /\ jobLogs[j] < MaxLogs
    /\ jobLogs' = [jobLogs EXCEPT ![j] = @ + 1]
    /\ UNCHANGED <<netUp, jobs, console>>
    /\ UNCHANGED sgVars
    /\ UNCHANGED dmVars
    /\ UNCHANGED ppVars

\* another session starts a job
OtherSessionJob ==
    /\ Len(jobs) < MaxJobs
    /\ jobs' = Append(jobs, "running")
    /\ jobLogs' = Append(jobLogs, 0)
    /\ UNCHANGED <<netUp, console>>
    /\ UNCHANGED sgVars
    /\ UNCHANGED dmVars
    /\ UNCHANGED ppVars

\* the backend becomes unreachable, or reachable again
NetFlip ==
    /\ netUp' = ~netUp
    /\ UNCHANGED <<jobs, jobLogs, console>>
    /\ UNCHANGED sgVars
    /\ UNCHANGED dmVars
    /\ UNCHANGED ppVars

(***************************************************************************)
(* DataManagerTab                                                          *)
(***************************************************************************)
\* const PAGE_SIZE = 20
PAGE_SIZE == 20

\* recipes in the backend table
NumRecipes == 21
\* last page index the operator pages to
MaxPage == 1
\* requests of one kind that user actions put in flight at the same time
MaxReqs == 2
\* field edits in one edit session
MaxEdits == 1
\* updateRecipe requests the operator sends
MaxSaves == 1

\* parseInt / parseFloat of an input the number parser rejects
NaN == -1

\* useState<Recipe | null>(null)
NoRecipe == [id |-> 0]

\* useState<RecipeStatistics | null>(null)
NoStatistics == [total_recipes |-> 0, main_images |-> 0, loaded |-> FALSE]

\* no alert dialog is open
NoAlert == [text |-> "none", cont |-> "none", page |-> 0, filter |-> ""]

\* useState<any>({})
EmptyObject == <<>>

\* the keys the Edit button copies from the selected recipe
InitKeys == {"name", "description", "region", "difficulty", "prep_time_minutes",
             "cook_time_minutes", "servings", "calories", "rating"}

\* the <option> values of the status filter
FilterOptions == {"", "pending", "validated", "needs_fixing"}

\* the filters the operator picks
FilterInputs == {"", "validated"}

\* what the operator types into the search box
QueryInputs == {"", " ", "Dal"}

\* what the operator types or picks in the text fields and selects
TextInputs(k) ==
    CASE k = "name" -> {"Dal", "Pav"}
      [] k = "description" -> {"plain", "spicy"}
      [] k = "region" -> {"North Indian", "South Indian"}
      [] k = "difficulty" -> {"Easy", "Hard"}
      [] k = "image_url" -> {"", "http://img/a"}
      [] k = "ingredients_image" -> {"", "http://img/b"}

TextKeys == {"name", "description", "region", "difficulty", "image_url",
             "ingredients_image"}

IntKeys == {"prep_time_minutes", "cook_time_minutes", "servings", "calories"}

\* what the operator types into the number inputs
NumberInputs == {"", "45", "4.5"}

\* parseInt(e.target.value)
ParseInt(str) ==
    CASE str = "" -> NaN
      [] str = "45" -> 45
      [] str = "4.5" -> 4

\* parseFloat(e.target.value), in tenths
ParseFloat(str) ==
    CASE str = "" -> NaN
      [] str = "45" -> 450
      [] str = "4.5" -> 45

\* searchQuery.trim()
Trim(str) == IF str = " " THEN "" ELSE str

\* {...obj, [k]: v}
Assign(obj, k, v) ==
    [x \in (DOMAIN obj) \cup {k} |-> IF x = k THEN v ELSE obj[x]]

\* {...a, ...b}
Spread(a, b) ==
    [x \in (DOMAIN a) \cup (DOMAIN b) |-> IF x \in DOMAIN b THEN b[x] ELSE a[x]]

\* list.filter((_, i) => i !== idx)
RemoveAt(list, idx) ==
    [i \in 1..(Len(list) - 1) |-> IF i < idx THEN list[i] ELSE list[i + 1]]

\* editedFields[k] ?? selectedRecipe[k]
Current(k) ==
    IF k \in DOMAIN editedFields THEN editedFields[k] ELSE selectedRecipe[k]

\* the recipe table the backend starts with
InitialRecipe(i) ==
    [id |-> i,
     name |-> IF i = 1 THEN "Dal" ELSE "Idli",
     description |-> "plain",
     region |-> "North Indian",
     difficulty |-> "Easy",
     prep_time_minutes |-> 10,
     cook_time_minutes |-> 20,
     servings |-> 2,
     calories |-> 100,
     rating |-> 40,
     ingredients |-> << [name |-> "rice", quantity |-> "1", unit |-> "cup"] >>,
     image_url |-> "",
     ingredients_image |-> "",
     step_image_urls |-> << "http://img/s1" >>,
     validation_status |-> IF i <= PAGE_SIZE THEN "pending" ELSE "validated"]

\* listRecipes({skip, limit, validation_status}).recipes
ListResponse(skip, limit, status) ==
    LET ids == SelectSeq([i \in 1..NumRecipes |-> i],
                         LAMBDA i : status = "" \/ db[i].validation_status = status)
        hi == Min(Len(ids), skip + limit)
    IN [k \in 1..(IF hi > skip THEN hi - skip ELSE 0) |-> db[ids[skip + k]]]

\* searchRecipes(query).recipes
SearchResponse(query) ==
    LET ids == SelectSeq([i \in 1..NumRecipes |-> i], LAMBDA i : db[i].name = query)
    IN [k \in 1..Len(ids) |-> db[ids[k]]]

\* getStatistics().statistics
StatisticsResponse ==
    [total_recipes |-> NumRecipes,
     main_images |-> Cardinality({i \in 1..NumRecipes : db[i].image_url # ""}),
     loaded |-> TRUE]

\* a backend that would keep a field once it has been changed
UpdateAppliedFirstWriteWins(id, fields) ==
    [db EXCEPT ![id] =
        [k \in (DOMAIN @) \cup (DOMAIN fields) |->
            IF k \in DOMAIN fields /\ (k \notin DOMAIN @ \/ @[k] = InitialRecipe(id)[k])
            THEN fields[k] ELSE @[k]]]

\* updateRecipe(id, fields): the backend sets the given fields of the record
UpdateApplied(id, fields) == [db EXCEPT ![id] = Spread(@, fields)]

\* what another dashboard session saves for the first recipe
OtherSessionFields == [name |-> "Pav", image_url |-> "http://img/o"]

\* the backend applies the updateRecipe request of another session
OtherSessionUpdate ==
    /\ db[1] # Spread(db[1], OtherSessionFields)
    /\ db' = UpdateApplied(1, OtherSessionFields)
    /\ UNCHANGED <<recipes, statistics, selectedRecipe, isEditing, editedFields, page,
                   loading, filter, searchQuery, searchResults, isSearching, alert,
                   listReqs, statsReqs, searchReqs, updateReqs, edits, saves>>
    /\ UNCHANGED <<envVars, sgVars>>
    /\ UNCHANGED imgSrc
    /\ UNCHANGED editOrigin
    /\ UNCHANGED ppVars

\* the list the operator sees and clicks in
DisplayedList == IF isSearching THEN searchResults ELSE recipes

ListReq(p, f) == [page |-> p, filter |-> f]

\* the backend's state other than the console
dmFrameEnv == <<netUp, jobs, jobLogs>>

\* useEffect(() => { loadRecipes(); loadStatistics(); }, [page, filter]) after
\* a render with page p and filter f: loadRecipes up to its await, loadStatistics
\* up to its await
LoadEffect(p, f) ==
    /\ loading' = TRUE
    /\ listReqs' = listReqs (+) SetToBag({ListReq(p, f)})
    /\ statsReqs' = statsReqs + 1

ReqsBelowBound ==
    /\ BagCardinality(listReqs) < MaxReqs
    /\ statsReqs < MaxReqs

\* <select value={filter} onChange={(e) => { setFilter(e.target.value); setPage(0); }}>
SetFilter(f) ==
    /\ alert = NoAlert /\ ~isSearching
    /\ f \in FilterInputs /\ f # filter
    /\ ReqsBelowBound
    /\ filter' = f
    /\ page' = 0
    /\ LoadEffect(0, f)
    /\ UNCHANGED <<db, recipes, statistics, selectedRecipe, isEditing, editedFields,
                   searchQuery, searchResults, isSearching, alert, searchReqs,
                   updateReqs, edits, saves>>
    /\ UNCHANGED <<envVars, sgVars>>
    /\ UNCHANGED imgSrc
    /\ UNCHANGED editOrigin
    /\ UNCHANGED ppVars

\* Previous: onClick={() => setPage(Math.max(0, page - 1))} disabled={page === 0}
PrevPage ==
    /\ alert = NoAlert /\ ~isSearching
    /\ page # 0
    /\ ReqsBelowBound
    /\ page' = IF page - 1 > 0 THEN page - 1 ELSE 0
    /\ LoadEffect(page', filter)
    /\ UNCHANGED <<db, recipes, statistics, selectedRecipe, isEditing, editedFields,
                   filter, searchQuery, searchResults, isSearching, alert, searchReqs,
                   updateReqs, edits, saves>>
    /\ UNCHANGED <<envVars, sgVars>>
    /\ UNCHANGED imgSrc
    /\ UNCHANGED editOrigin
    /\ UNCHANGED ppVars

\* Next: onClick={() => setPage(page + 1)} disabled={recipes.length < PAGE_SIZE}
NextPage ==
    /\ alert = NoAlert /\ ~isSearching
    /\ ~(Len(recipes) < PAGE_SIZE)
    /\ page < MaxPage
    /\ ReqsBelowBound
    /\ page' = page + 1
    /\ LoadEffect(page', filter)
    /\ UNCHANGED <<db, recipes, statistics, selectedRecipe, isEditing, editedFields,
                   filter, searchQuery, searchResults, isSearching, alert, searchReqs,
                   updateReqs, edits, saves>>
    /\ UNCHANGED <<envVars, sgVars>>
    /\ UNCHANGED imgSrc
    /\ UNCHANGED editOrigin
    /\ UNCHANGED ppVars

\* listRecipes resolves: setRecipes(response.recipes); finally setLoading(false)
ListOk(req) ==
    /\ alert = NoAlert
    /\ BagIn(req, listReqs)
    /\ listReqs' = listReqs (-) SetToBag({req})
    /\ recipes' = ListResponse(req.page * PAGE_SIZE, PAGE_SIZE, req.filter)
    /\ loading' = FALSE
    /\ UNCHANGED <<db, statistics, selectedRecipe, isEditing, editedFields, page,
                   filter, searchQuery, searchResults, isSearching, alert, statsReqs,
                   searchReqs, updateReqs, edits, saves>>
    /\ UNCHANGED <<envVars, sgVars>>
    /\ UNCHANGED imgSrc
    /\ UNCHANGED editOrigin
    /\ UNCHANGED ppVars

\* listRecipes rejects: console.error, alert(`Failed to load recipes: ...`);
\* setLoading(false) runs when the alert is dismissed
ListFail(req) ==
    /\ alert = NoAlert
    /\ BagIn(req, listReqs)
    /\ listReqs' = listReqs (-) SetToBag({req})
    /\ console' = console \cup {"Failed to load recipes:"}
    /\ alert' = [NoAlert EXCEPT !.text = "Failed to load recipes", !.cont = "loadingOff"]
    /\ UNCHANGED <<db, recipes, statistics, selectedRecipe, isEditing, editedFields,
                   page, loading, filter, searchQuery, searchResults, isSearching,
                   statsReqs, searchReqs, updateReqs, edits, saves>>
    /\ UNCHANGED <<netUp, jobs, jobLogs>>
    /\ UNCHANGED sgVars
    /\ UNCHANGED imgSrc
    /\ UNCHANGED editOrigin
    /\ UNCHANGED ppVars

\* getStatistics resolves: setStatistics(response.statistics)
StatsOk ==
    /\ alert = NoAlert
    /\ statsReqs > 0
    /\ statsReqs' = statsReqs - 1
    /\ statistics' = StatisticsResponse
    /\ UNCHANGED <<db, recipes, selectedRecipe, isEditing, editedFields, page, loading,
                   filter, searchQuery, searchResults, isSearching, alert, listReqs,
                   searchReqs, updateReqs, edits, saves>>
    /\ UNCHANGED <<envVars, sgVars>>
    /\ UNCHANGED imgSrc
    /\ UNCHANGED editOrigin
    /\ UNCHANGED ppVars

\* getStatistics rejects: console.error('Failed to load statistics:', error)
StatsFail ==
    /\ alert = NoAlert
    /\ statsReqs > 0
    /\ statsReqs' = statsReqs - 1
    /\ console' = console \cup {"Failed to load statistics:"}
    /\ UNCHANGED dmFrameEnv
    /\ UNCHANGED <<db, recipes, statistics, selectedRecipe, isEditing, editedFields,
                   page, loading, filter, searchQuery, searchResults, isSearching,
                   alert, listReqs, searchReqs, updateReqs, edits, saves>>
    /\ UNCHANGED sgVars
    /\ UNCHANGED imgSrc
    /\ UNCHANGED editOrigin
    /\ UNCHANGED ppVars

\* onChange={(e) => setSearchQuery(e.target.value)}
SetSearchQuery(q) ==
    /\ alert = NoAlert
    /\ q \in QueryInputs /\ q # searchQuery
    /\ searchQuery' = q
    /\ UNCHANGED <<db, recipes, statistics, selectedRecipe, isEditing, editedFields,
                   page, loading, filter, searchResults, isSearching, alert, listReqs,
                   statsReqs, searchReqs, updateReqs, edits, saves>>
    /\ UNCHANGED <<envVars, sgVars>>
    /\ UNCHANGED imgSrc
    /\ UNCHANGED editOrigin
    /\ UNCHANGED ppVars

\* a handleSearch that would also reset the page and the filter
handleSearchResets ==
    /\ alert = NoAlert
    /\ Trim(searchQuery) # ""
    /\ BagCardinality(searchReqs) < MaxReqs
    /\ loading' = TRUE
    /\ isSearching' = TRUE
    /\ searchReqs' = searchReqs (+) SetToBag({searchQuery})
    /\ page' = 0
    /\ filter' = ""
    /\ UNCHANGED <<db, recipes, statistics, selectedRecipe, isEditing, editedFields,
                   searchQuery, searchResults, alert, listReqs, statsReqs, updateReqs,
                   edits, saves>>
    /\ UNCHANGED <<envVars, sgVars>>
    /\ UNCHANGED imgSrc
    /\ UNCHANGED editOrigin
    /\ UNCHANGED ppVars

\* handleSearch up to the await of searchRecipes (the Search button, or Enter)
handleSearch ==
    /\ alert = NoAlert
    /\ IF Trim(searchQuery) = ""
       THEN /\ searchResults' = <<>>
            /\ isSearching' = FALSE
            /\ UNCHANGED <<loading, searchReqs>>
       ELSE /\ BagCardinality(searchReqs) < MaxReqs
            /\ loading' = TRUE
            /\ isSearching' = TRUE
            /\ searchReqs' = searchReqs (+) SetToBag({searchQuery})
            /\ UNCHANGED searchResults
    /\ UNCHANGED <<db, recipes, statistics, selectedRecipe, isEditing, editedFields,
                   page, filter, searchQuery, alert, listReqs, statsReqs, updateReqs,
                   edits, saves>>
    /\ UNCHANGED <<envVars, sgVars>>
    /\ UNCHANGED imgSrc
    /\ UNCHANGED editOrigin
    /\ UNCHANGED ppVars

\* searchRecipes resolves: setSearchResults(response.recipes); finally setLoading(false)
SearchOk(q) ==
    /\ alert = NoAlert
    /\ BagIn(q, searchReqs)
    /\ searchReqs' = searchReqs (-) SetToBag({q})
    /\ searchResults' = SearchResponse(q)
    /\ loading' = FALSE
    /\ UNCHANGED <<db, recipes, statistics, selectedRecipe, isEditing, editedFields,
                   page, filter, searchQuery, isSearching, alert, listReqs, statsReqs,
                   updateReqs, edits, saves>>
    /\ UNCHANGED <<envVars, sgVars>>
    /\ UNCHANGED imgSrc
    /\ UNCHANGED editOrigin
    /\ UNCHANGED ppVars

\* searchRecipes rejects: console.error, alert(`Search failed: ...`);
\* setLoading(false) runs when the alert is dismissed
SearchFail(q) ==
    /\ alert = NoAlert
    /\ BagIn(q, searchReqs)
    /\ searchReqs' = searchReqs (-) SetToBag({q})
    /\ console' = console \cup {"Search failed:"}
    /\ alert' = [NoAlert EXCEPT !.text = "Search failed", !.cont = "loadingOff"]
    /\ UNCHANGED <<db, recipes, statistics, selectedRecipe, isEditing, editedFields,
                   page, loading, filter, searchQuery, searchResults, isSearching,
                   listReqs, statsReqs, updateReqs, edits, saves>>
    /\ UNCHANGED dmFrameEnv
    /\ UNCHANGED sgVars
    /\ UNCHANGED imgSrc
    /\ UNCHANGED editOrigin
    /\ UNCHANGED ppVars

\* clearSearch (the Clear button is rendered while isSearching)
clearSearch ==
    /\ alert = NoAlert
    /\ isSearching
    /\ searchQuery' = ""
    /\ searchResults' = <<>>
    /\ isSearching' = FALSE
    /\ UNCHANGED <<db, recipes, statistics, selectedRecipe, isEditing, editedFields,
                   page, loading, filter, alert, listReqs, statsReqs, searchReqs,
                   updateReqs, edits, saves>>
    /\ UNCHANGED <<envVars, sgVars>>
    /\ UNCHANGED imgSrc
    /\ UNCHANGED editOrigin
    /\ UNCHANGED ppVars

\* the positions of the list the operator clicks
(***************************************************************************)
(* DataManagerTab: the images of the recipe details                        *)
(***************************************************************************)
\* the <img> elements of the details panel, by where they are rendered:
\* the 'Image URL Management' previews of edit mode and of view mode, and
\* the 'Images' status section
ImageKinds == {"mainEdit", "mainView", "ingredientsEdit", "ingredientsView",
               "stepEdit", "stepView", "statusMain", "statusIngredients",
               "statusStep"}

\* step_image_urls.slice(0, 6) of the status section
StatusStepLimit == 6

\* an <img> element: its place and, for a step image, its index (key={idx})
Img(kind, idx) == [kind |-> kind, idx |-> idx]

\* the image kinds that would have an onError handler if the step images
\* had none
HandledKindsWithoutSteps ==
    ImageKinds \ {"stepEdit", "stepView", "statusStep"}

\* the image kinds whose <img> has an onError attribute
HandledKinds == ImageKinds

\* the data URI an onError handler assigns: an inline SVG of the given
\* width showing the given text
Placeholder(kind) ==
    [scheme |-> "data:image/svg+xml",
     width |-> IF kind = "stepEdit" THEN 50 ELSE 100,
     text |-> CASE kind \in {"mainEdit", "ingredientsEdit"} -> "Invalid URL"
                [] kind \in {"mainView", "ingredientsView"} -> "Error Loading"
                [] kind \in {"stepEdit", "stepView"} -> "!"
                [] kind \in {"statusMain", "statusIngredients"} -> "No Image"
                [] OTHER -> "Error"]

\* the indices of the elements a one-or-none image renders
One(cond) == IF cond THEN {0} ELSE {}

\* the <img> elements the details panel renders
RenderedImages ==
    IF selectedRecipe = NoRecipe THEN {}
    ELSE (IF isEditing
          THEN {Img("mainEdit", i) : i \in One(Current("image_url") # "")}
               \cup {Img("ingredientsEdit", i) :
                        i \in One(Current("ingredients_image") # "")}
               \cup {Img("stepEdit", i) :
                        i \in {j \in 1..Len(Current("step_image_urls")) :
                                  Current("step_image_urls")[j] # ""}}
          ELSE {Img("mainView", i) : i \in One(selectedRecipe.image_url # "")}
               \cup {Img("ingredientsView", i) :
                        i \in One(selectedRecipe.ingredients_image # "")}
               \cup {Img("stepView", i) :
                        i \in 1..Len(selectedRecipe.step_image_urls)})
         \cup {Img("statusMain", i) : i \in One(selectedRecipe.image_url # "")}
         \cup {Img("statusIngredients", i) :
                  i \in One(selectedRecipe.ingredients_image # "")}
         \cup {Img("statusStep", i) :
                  i \in 1..Min(Len(selectedRecipe.step_image_urls), StatusStepLimit)}

\* the src prop of a rendered <img>
ImageUrl(el) ==
    CASE el.kind = "mainEdit" -> Current("image_url")
      [] el.kind = "ingredientsEdit" -> Current("ingredients_image")
      [] el.kind = "stepEdit" -> Current("step_image_urls")[el.idx]
      [] el.kind \in {"mainView", "statusMain"} -> selectedRecipe.image_url
      [] el.kind \in {"ingredientsView", "statusIngredients"} ->
            selectedRecipe.ingredients_image
      [] OTHER -> selectedRecipe.step_image_urls[el.idx]

\* what a rendered <img> shows: the src its handler assigned, or its prop
DisplayedSrc(el) ==
    IF el \in DOMAIN imgSrc THEN imgSrc[el]
    ELSE [scheme |-> "url", width |-> 0, text |-> ImageUrl(el)]

\* a render after a state change: an <img> that is no longer rendered is
\* removed, one whose src prop changed gets the new prop, and one whose
\* prop is the same keeps the src its handler assigned
Reconcile ==
    imgSrc' = [el \in {e \in DOMAIN imgSrc :
                          /\ e \in RenderedImages'
                          /\ ImageUrl(e)' = ImageUrl(e)} |-> imgSrc[el]]

\* an image's URL fails to load and the element's onError handler runs:
\* (e.target as HTMLImageElement).src = 'data:image/svg+xml,...'
onError(el) ==
    /\ alert = NoAlert
    /\ el \in RenderedImages
    /\ el \notin DOMAIN imgSrc
    /\ el.kind \in HandledKinds
    /\ imgSrc' = Assign(imgSrc, el, Placeholder(el.kind))
    /\ UNCHANGED <<db, recipes, statistics, selectedRecipe, isEditing, editedFields,
                   page, loading, filter, searchQuery, searchResults, isSearching,
                   alert, listReqs, statsReqs, searchReqs, updateReqs, edits, saves>>
    /\ UNCHANGED <<envVars, sgVars>>
    /\ UNCHANGED editOrigin
    /\ UNCHANGED ppVars

ClickPositions == {1, 2}

\* a list item's onClick={() => setSelectedRecipe(recipe)}; the list is
\* rendered when loading is false
SelectRecipe(i) ==
    /\ alert = NoAlert
    /\ ~loading
    /\ i \in ClickPositions /\ i <= Len(DisplayedList)
    /\ selectedRecipe' = DisplayedList[i]
    /\ UNCHANGED <<db, recipes, statistics, isEditing, editedFields, page, loading,
                   filter, searchQuery, searchResults, isSearching, alert, listReqs,
                   statsReqs, searchReqs, updateReqs, edits, saves>>
    /\ UNCHANGED <<envVars, sgVars>>
    /\ Reconcile
    /\ UNCHANGED editOrigin
    /\ UNCHANGED ppVars

\* the Edit button: setIsEditing(true); setEditedFields({name: ..., rating: ...})
Edit ==
    /\ alert = NoAlert
    /\ selectedRecipe # NoRecipe /\ ~isEditing
    /\ isEditing' = TRUE
    /\ editedFields' = [k \in InitKeys |-> selectedRecipe[k]]
    /\ edits' = 0
    /\ UNCHANGED <<db, recipes, statistics, selectedRecipe, page, loading, filter,
                   searchQuery, searchResults, isSearching, alert, listReqs,
                   statsReqs, searchReqs, updateReqs, saves>>
    /\ UNCHANGED <<envVars, sgVars>>
    /\ Reconcile
    /\ editOrigin' = selectedRecipe.id
    /\ UNCHANGED ppVars

\* the Cancel button: setIsEditing(false); setEditedFields({})
Cancel ==
    /\ alert = NoAlert
    /\ selectedRecipe # NoRecipe /\ isEditing
    /\ isEditing' = FALSE
    /\ editedFields' = EmptyObject
    /\ edits' = 0
    /\ UNCHANGED <<db, recipes, statistics, selectedRecipe, page, loading, filter,
                   searchQuery, searchResults, isSearching, alert, listReqs,
                   statsReqs, searchReqs, updateReqs, saves>>
    /\ UNCHANGED <<envVars, sgVars>>
    /\ Reconcile
    /\ editOrigin' = 0
    /\ UNCHANGED ppVars

\* the edit controls are rendered: {selectedRecipe && ...}, {isEditing ? ...}
EditControlsShown == alert = NoAlert /\ selectedRecipe # NoRecipe /\ isEditing

\* a handler that would write the new value into the selected recipe as well
SetEditedInPlace(k, v) ==
    /\ EditControlsShown
    /\ edits < MaxEdits
    /\ editedFields' = Assign(editedFields, k, v)
    /\ selectedRecipe' = Assign(selectedRecipe, k, v)
    /\ edits' = edits + 1
    /\ UNCHANGED <<db, recipes, statistics, isEditing, page, loading,
                   filter, searchQuery, searchResults, isSearching, alert, listReqs,
                   statsReqs, searchReqs, updateReqs, saves>>
    /\ UNCHANGED <<envVars, sgVars>>
    /\ Reconcile
    /\ UNCHANGED editOrigin
    /\ UNCHANGED ppVars

\* an edit control's handler: setEditedFields({...editedFields, [k]: v})
SetEdited(k, v) ==
    /\ EditControlsShown
    /\ edits < MaxEdits
    /\ editedFields' = Assign(editedFields, k, v)
    /\ edits' = edits + 1
    /\ UNCHANGED <<db, recipes, statistics, selectedRecipe, isEditing, page, loading,
                   filter, searchQuery, searchResults, isSearching, alert, listReqs,
                   statsReqs, searchReqs, updateReqs, saves>>
    /\ UNCHANGED <<envVars, sgVars>>
    /\ Reconcile
    /\ UNCHANGED editOrigin
    /\ UNCHANGED ppVars

\* name, description, region, difficulty, image URL, ingredients image URL
ChangeText(k, v) ==
    /\ EditControlsShown
    /\ k \in TextKeys /\ v \in TextInputs(k)
    /\ v # Current(k)
    /\ SetEdited(k, v)

\* prep time, cook time, servings, calories: parseInt(e.target.value)
ChangeInt(k, str) ==
    /\ EditControlsShown
    /\ k \in IntKeys /\ str \in NumberInputs
    /\ SetEdited(k, ParseInt(str))

\* rating: parseFloat(e.target.value)
ChangeRating(str) ==
    /\ EditControlsShown
    /\ str \in NumberInputs
    /\ SetEdited("rating", ParseFloat(str))

\* the Remove button beside an image preview
RemoveImage(k) ==
    /\ EditControlsShown
    /\ k \in {"image_url", "ingredients_image"}
    /\ Current(k) # ""
    /\ SetEdited(k, "")

\* + Add Ingredient
AddIngredient ==
    /\ EditControlsShown
    /\ SetEdited("ingredients",
              Append(Current("ingredients"),
                     [name |-> "", ingredient |-> "", quantity |-> "", unit |-> ""]))

\* the ingredient name input
ChangeIngredientName(idx, v) ==
    /\ EditControlsShown
    /\ idx \in 1..Len(Current("ingredients"))
    /\ v \in {"dal", "ghee"}
    /\ SetEdited("ingredients",
                 [Current("ingredients") EXCEPT
                     ![idx] = Assign(Assign(@, "name", v), "ingredient", v)])

\* the ingredient quantity input
ChangeIngredientQuantity(idx, v) ==
    /\ EditControlsShown
    /\ idx \in 1..Len(Current("ingredients"))
    /\ v \in {"2"}
    /\ SetEdited("ingredients",
                 [Current("ingredients") EXCEPT ![idx] = Assign(@, "quantity", v)])

\* the ingredient delete button
DeleteIngredient(idx) ==
    /\ EditControlsShown
    /\ idx \in 1..Len(Current("ingredients"))
    /\ SetEdited("ingredients", RemoveAt(Current("ingredients"), idx))

\* + Add Step Image URL
AddStepImage ==
    /\ EditControlsShown
    /\ SetEdited("step_image_urls", Append(Current("step_image_urls"), ""))

\* a step image URL input
ChangeStepImage(idx, v) ==
    /\ EditControlsShown
    /\ idx \in 1..Len(Current("step_image_urls"))
    /\ v \in {"http://img/s2"}
    /\ SetEdited("step_image_urls", [Current("step_image_urls") EXCEPT ![idx] = v])

\* a step image delete button
DeleteStepImage(idx) ==
    /\ EditControlsShown
    /\ idx \in 1..Len(Current("step_image_urls"))
    /\ SetEdited("step_image_urls", RemoveAt(Current("step_image_urls"), idx))

UpdateReq(id, fields, p, f) == [id |-> id, fields |-> fields, page |-> p, filter |-> f]

\* handleSave up to the await of updateRecipe (the Save button is rendered
\* while isEditing); page and filter are those of the render whose
\* loadRecipes the handler closes over
handleSave ==
    /\ alert = NoAlert
    /\ selectedRecipe # NoRecipe /\ isEditing
    /\ IF Cardinality(DOMAIN editedFields) = 0
       THEN UNCHANGED <<updateReqs, saves>>
       ELSE /\ saves < MaxSaves
            /\ saves' = saves + 1
            /\ updateReqs' = updateReqs (+)
                   SetToBag({UpdateReq(selectedRecipe.id, editedFields, page, filter)})
    /\ UNCHANGED <<db, recipes, statistics, selectedRecipe, isEditing, editedFields,
                   page, loading, filter, searchQuery, searchResults, isSearching,
                   alert, listReqs, statsReqs, searchReqs, edits>>
    /\ UNCHANGED <<envVars, sgVars>>
    /\ UNCHANGED imgSrc
    /\ UNCHANGED editOrigin
    /\ UNCHANGED ppVars

\* updateRecipe resolves: alert('Recipe updated successfully!'); the rest of
\* the try block runs when the alert is dismissed
UpdateOk(req) ==
    /\ alert = NoAlert
    /\ BagIn(req, updateReqs)
    /\ updateReqs' = updateReqs (-) SetToBag({req})
    /\ db' = UpdateApplied(req.id, req.fields)
    /\ alert' = [text |-> "Recipe updated successfully!", cont |-> "saved",
                 page |-> req.page, filter |-> req.filter]
    /\ UNCHANGED <<recipes, statistics, selectedRecipe, isEditing, editedFields, page,
                   loading, filter, searchQuery, searchResults, isSearching, listReqs,
                   statsReqs, searchReqs, edits, saves>>
    /\ UNCHANGED <<envVars, sgVars>>
    /\ UNCHANGED imgSrc
    /\ UNCHANGED editOrigin
    /\ UNCHANGED ppVars

\* a catch that would also leave edit mode and reload the list
UpdateFailLeavesEditMode(req) ==
    /\ alert = NoAlert
    /\ BagIn(req, updateReqs)
    /\ updateReqs' = updateReqs (-) SetToBag({req})
    /\ alert' = [text |-> "Failed to update", cont |-> "saved",
                 page |-> req.page, filter |-> req.filter]
    /\ UNCHANGED <<db, recipes, statistics, selectedRecipe, isEditing, editedFields,
                   page, loading, filter, searchQuery, searchResults, isSearching,
                   listReqs, statsReqs, searchReqs, edits, saves>>
    /\ UNCHANGED <<envVars, sgVars>>
    /\ UNCHANGED imgSrc
    /\ UNCHANGED editOrigin
    /\ UNCHANGED ppVars

\* updateRecipe rejects: alert(`Failed to update: ...`)
UpdateFail(req) ==
    /\ alert = NoAlert
    /\ BagIn(req, updateReqs)
    /\ updateReqs' = updateReqs (-) SetToBag({req})
    /\ alert' = [NoAlert EXCEPT !.text = "Failed to update"]
    /\ UNCHANGED <<db, recipes, statistics, selectedRecipe, isEditing, editedFields,
                   page, loading, filter, searchQuery, searchResults, isSearching,
                   listReqs, statsReqs, searchReqs, edits, saves>>
    /\ UNCHANGED <<envVars, sgVars>>
    /\ UNCHANGED imgSrc
    /\ UNCHANGED editOrigin
    /\ UNCHANGED ppVars

\* a continuation of handleSave that would not reload the list
DismissAlertWithoutReload ==
    /\ alert # NoAlert
    /\ alert' = NoAlert
    /\ isEditing' = FALSE
    /\ editedFields' = EmptyObject
    /\ edits' = 0
    /\ UNCHANGED <<db, recipes, statistics, selectedRecipe, page, loading, filter,
                   searchQuery, searchResults, isSearching, listReqs, statsReqs,
                   searchReqs, updateReqs, saves>>
    /\ UNCHANGED <<envVars, sgVars>>
    /\ Reconcile
    /\ editOrigin' = 0
    /\ UNCHANGED ppVars

\* the operator dismisses the alert; the handler that raised it goes on:
\*   after 'Recipe updated successfully!': setIsEditing(false);
\*     setEditedFields({}); await loadRecipes()
\*   after a failed load or search: finally { setLoading(false) }
DismissAlert ==
    /\ alert # NoAlert
    /\ alert' = NoAlert
    /\ CASE alert.cont = "saved" ->
              /\ isEditing' = FALSE
              /\ editedFields' = EmptyObject
              /\ edits' = 0
              /\ loading' = TRUE
              /\ listReqs' = listReqs (+) SetToBag({ListReq(alert.page, alert.filter)})
         [] alert.cont = "loadingOff" ->
              /\ loading' = FALSE
              /\ UNCHANGED <<isEditing, editedFields, edits, listReqs>>
         [] OTHER ->
              UNCHANGED <<isEditing, editedFields, edits, loading, listReqs>>
    /\ UNCHANGED <<db, recipes, statistics, selectedRecipe, page, filter, searchQuery,
                   searchResults, isSearching, statsReqs, searchReqs, updateReqs, saves>>
    /\ UNCHANGED <<envVars, sgVars>>
    /\ Reconcile
    /\ editOrigin' = IF alert.cont = "saved" THEN 0 ELSE editOrigin
    /\ UNCHANGED ppVars

(***************************************************************************)
(* SpecificGenerationTab: search, selection and options                    *)
(***************************************************************************)
\* what the operator types into the tab's search box
SgQueryInputs == {"", "Dal", "Zzz"}

\* the names of searchRecipes(query).recipes
SgSearchResponse(query) ==
    [i \in 1..Len(SearchResponse(query)) |-> SearchResponse(query)[i].name]

\* onChange={(e) => setSearchQuery(e.target.value)} disabled={isSearching}
sgSetSearchQuery(q) ==
    /\ mounted /\ ~sgIsSearching
    /\ q \in SgQueryInputs /\ q # sgSearchQuery
    /\ sgSearchQuery' = q
    /\ UNCHANGED <<sgSearchResults, sgIsSearching>>
    /\ UNCHANGED <<mounted, sgSelectedRecipe, fix, isGenerating, logs, message, runs,
                   cycles, tickedUnmounted>>
    /\ UNCHANGED <<envVars, dmVars>>
    /\ UNCHANGED runJob
    /\ UNCHANGED startReq
    /\ UNCHANGED ppVars

\* handleSearch up to the await of searchRecipes
sgHandleSearch ==
    /\ mounted /\ ~sgIsSearching
    /\ Trim(sgSearchQuery) # ""
    /\ sgIsSearching' = TRUE
    /\ UNCHANGED <<sgSearchQuery, sgSearchResults>>
    /\ UNCHANGED <<mounted, sgSelectedRecipe, fix, isGenerating, logs, message, runs,
                   cycles, tickedUnmounted>>
    /\ UNCHANGED <<envVars, dmVars>>
    /\ UNCHANGED runJob
    /\ UNCHANGED startReq
    /\ UNCHANGED ppVars

\* searchRecipes resolves: setSearchResults(response.recipes); an empty
\* result sets the 'No recipes found' message; finally setIsSearching(false)
sgSearchOk ==
    /\ sgIsSearching
    /\ netUp
    /\ sgSearchResults' = SgSearchResponse(sgSearchQuery)
    /\ message' = IF Len(sgSearchResults') = 0
                  THEN [type |-> "error",
                        text |-> "No recipes found matching your search"]
                  ELSE message
    /\ sgIsSearching' = FALSE
    /\ UNCHANGED sgSearchQuery
    /\ UNCHANGED <<mounted, sgSelectedRecipe, fix, isGenerating, logs, runs, cycles,
                   tickedUnmounted>>
    /\ UNCHANGED <<envVars, dmVars>>
    /\ UNCHANGED runJob
    /\ UNCHANGED startReq
    /\ UNCHANGED ppVars

\* searchRecipes rejects: the catch sets the message to the error's message,
\* or to 'Search failed' when it is not an Error; finally
\* setIsSearching(false)
sgSearchFail ==
    /\ sgIsSearching
    /\ ~netUp
    /\ \E error \in Rejections :
          message' = [type |-> "error", text |-> ErrorText(error, "Search failed")]
    /\ sgIsSearching' = FALSE
    /\ UNCHANGED <<sgSearchQuery, sgSearchResults>>
    /\ UNCHANGED <<mounted, sgSelectedRecipe, fix, isGenerating, logs, runs, cycles,
                   tickedUnmounted>>
    /\ UNCHANGED <<envVars, dmVars>>
    /\ UNCHANGED runJob
    /\ UNCHANGED startReq
    /\ UNCHANGED ppVars

\* a result's onClick={() => setSelectedRecipe(recipe)}
sgSelectRecipe(i) ==
    /\ mounted
    /\ i \in 1..Len(sgSearchResults)
    /\ sgSelectedRecipe' = sgSearchResults[i]
    /\ UNCHANGED sgSearchVars
    /\ UNCHANGED <<mounted, fix, isGenerating, logs, message, runs, cycles,
                   tickedUnmounted>>
    /\ UNCHANGED <<envVars, dmVars>>
    /\ UNCHANGED runJob
    /\ UNCHANGED startReq
    /\ UNCHANGED ppVars

\* an option checkbox: onChange={(e) => option.setter(e.target.checked)},
\* rendered when a recipe is selected, disabled={isGenerating}
ToggleOption(o) ==
    /\ mounted /\ sgSelectedRecipe # "null" /\ ~isGenerating
    /\ o \in FixOptions
    /\ fix' = IF o \in fix THEN fix \ {o} ELSE fix \cup {o}
    /\ UNCHANGED sgSearchVars
    /\ UNCHANGED <<mounted, sgSelectedRecipe, isGenerating, logs, message, runs, cycles,
                   tickedUnmounted>>
    /\ UNCHANGED <<envVars, dmVars>>
    /\ UNCHANGED runJob
    /\ UNCHANGED startReq
    /\ UNCHANGED ppVars

(***************************************************************************)
(* Specification of the polling flow: the view is mounted, the operator    *)
(* has selected a recipe and ticked one option.                            *)
(***************************************************************************)
Init ==
    /\ netUp = TRUE
    /\ jobs = <<>>
    /\ jobLogs = <<>>
    /\ console = {}
    /\ mounted = TRUE
    /\ sgSelectedRecipe = "Dal"
    /\ fix = {"fixMainImage"}
    /\ isGenerating = FALSE
    /\ logs = {}
    /\ message = NoMessage
    /\ runs = [r \in Runs |-> "unused"]
    /\ runJob = [r \in Runs |-> 0]
    /\ startReq = [r \in Runs |-> NoRequest]
    /\ cycles = EmptyBag
    /\ tickedUnmounted = FALSE
    /\ sgSearchQuery = "Dal"
    /\ sgSearchResults = <<"Dal">>
    /\ sgIsSearching = FALSE
    /\ db = [i \in 1..NumRecipes |-> InitialRecipe(i)]
    /\ recipes = <<>>
    /\ statistics = NoStatistics
    /\ selectedRecipe = NoRecipe
    /\ isEditing = FALSE
    /\ editedFields = EmptyObject
    /\ page = 0
    /\ loading = TRUE
    /\ filter = ""
    /\ searchQuery = ""
    /\ searchResults = <<>>
    /\ isSearching = FALSE
    /\ alert = NoAlert
    /\ listReqs = SetToBag({ListReq(0, "")})
    /\ statsReqs = 1
    /\ searchReqs = EmptyBag
    /\ updateReqs = EmptyBag
    /\ edits = 0
    /\ saves = 0
    /\ imgSrc = <<>>
    /\ step = "preferences" /\ sessionId = "" /\ recommendations = ""
    /\ editOrigin = 0

Next ==
    \/ \E r \in Runs : handleGenerate(r)
    \/ \E r \in Runs : StartOk(r)
    \/ \E r \in Runs : StartFail(r)
    \/ \E r \in Runs : Tick(r)
    \/ \E c \in BagToSet(cycles) : ServeJobs(c)
    \/ \E c \in BagToSet(cycles) : FailJobs(c)
    \/ \E c \in BagToSet(cycles) : DeliverJobs(c)
    \/ \E c \in BagToSet(cycles) : ServeLogs(c)
    \/ \E c \in BagToSet(cycles) : FailLogs(c)
    \/ \E c \in BagToSet(cycles) : DeliverLogs(c)
    \/ Unmount
    \/ \E j \in 1..MaxJobs, s \in JobStatuses : JobEnds(j, s)
    \/ \E j \in 1..MaxJobs : JobLogs(j)
    \/ OtherSessionJob
    \/ NetFlip

Spec == Init /\ [][Next]_vars

(***************************************************************************)
(* The polling flow with the scheduling the event loop gives: an active    *)
(* interval timer fires again, a request that is sent is answered or       *)
(* fails, and a response that has arrived is handled.                      *)
(***************************************************************************)
Fairness ==
    /\ \A r \in Runs : WF_vars(Tick(r))
    /\ WF_vars(\E c \in BagToSet(cycles) : ServeJobs(c))
    /\ WF_vars(\E c \in BagToSet(cycles) : FailJobs(c))
    /\ WF_vars(\E c \in BagToSet(cycles) : DeliverJobs(c))
    /\ WF_vars(\E c \in BagToSet(cycles) : ServeLogs(c))
    /\ WF_vars(\E c \in BagToSet(cycles) : FailLogs(c))
    /\ WF_vars(\E c \in BagToSet(cycles) : DeliverLogs(c))

\* the steps of Next while the view stays mounted
NextMounted ==
    \/ \E r \in Runs : handleGenerate(r)
    \/ \E r \in Runs : StartOk(r)
    \/ \E r \in Runs : StartFail(r)
    \/ \E r \in Runs : Tick(r)
    \/ \E c \in BagToSet(cycles) : ServeJobs(c)
    \/ \E c \in BagToSet(cycles) : FailJobs(c)
    \/ \E c \in BagToSet(cycles) : DeliverJobs(c)
    \/ \E c \in BagToSet(cycles) : ServeLogs(c)
    \/ \E c \in BagToSet(cycles) : FailLogs(c)
    \/ \E c \in BagToSet(cycles) : DeliverLogs(c)
    \/ \E j \in 1..MaxJobs, s \in JobStatuses : JobEnds(j, s)
    \/ \E j \in 1..MaxJobs : JobLogs(j)
    \/ OtherSessionJob
    \/ NetFlip

LiveSpec == Init /\ [][NextMounted]_vars /\ Fairness

(***************************************************************************)
(* Steps of the polling flow the claims speak about.                       *)
(***************************************************************************)
\* a poll cycle of run r calls getJobLogs
GetJobLogsCalled(r) ==
    \E c \in BagToSet(cycles) : c.run = r /\ c.job # 0 /\ DeliverJobs(c)

\* a poll cycle of run r runs the terminal branch
TerminalObserved(r) ==
    \E c \in BagToSet(cycles) :
        c.run = r /\ c.status \in TerminalStatuses /\ DeliverLogs(c)

\* a jobs or logs request of a poll cycle fails
PollRequestFails ==
    \E c \in BagToSet(cycles) : FailJobs(c) \/ FailLogs(c)

\* a start, list, statistics, search or update request, or a request of a
\* poll cycle, fails
RequestFails ==
    \/ \E r \in Runs : StartFail(r)
    \/ PollRequestFails
    \/ \E req \in BagToSet(listReqs) : ListFail(req)
    \/ StatsFail
    \/ \E q \in BagToSet(searchReqs) : SearchFail(q)
    \/ \E req \in BagToSet(updateReqs) : UpdateFail(req)
    \/ sgSearchFail

\* number of requests in flight
OpenRequests ==
    SumCopies(cycles, {c \in BagToSet(cycles) : c.pc \in {"jobsSent", "logsSent"}})
    + Cardinality({r \in Runs : runs[r] = "starting"})
    + BagCardinality(listReqs) + statsReqs
    + BagCardinality(searchReqs) + BagCardinality(updateReqs)
    + (IF sgIsSearching THEN 1 ELSE 0)

\* the fields of the overlay whose value differs from the selected recipe's
ChangedFields ==
    {k \in DOMAIN editedFields : editedFields[k] # selectedRecipe[k]}

\* the update requests a step sends
SentUpdates == BagToSet(updateReqs') \ BagToSet(updateReqs)

\* the backend's most recent job is in a status it never leaves
LatestJobFinished == LatestJobStatus \in JobStatuses \ {"running"}

(***************************************************************************)
(* C1: once a poll cycle of a run has observed the latest job in a         *)
(* terminal status (it ran the terminal branch, which clears the run's     *)
(* interval), no poll cycle of that run calls getJobLogs any more.         *)
(***************************************************************************)
C1_NoLogsCallAfterTerminal ==
    [][\A r \in Runs : runs[r] = "cleared" => ~GetJobLogsCalled(r)]_vars

(***************************************************************************)
(* C4: if the backend stays reachable from some point on and its most      *)
(* recent job reaches and stays in a terminal status, then a run whose     *)
(* start request succeeded (its timer is active) leads to a state in which *)
(* its timer is cleared and isGenerating is false.                         *)
(***************************************************************************)
C4_PollEventuallyStops ==
    \A r \in Runs :
        (<>[]netUp /\ <>[]LatestJobFinished)
            => (TimerActive(r) ~> (runs[r] = "cleared" /\ ~isGenerating))

\* a run was stopped by a poll cycle, through a failed cycle and a job of
\* another session
C4_Witness ==
    \E r \in Runs :
        /\ runs[r] = "cleared" /\ ~isGenerating
        /\ netUp /\ LatestJobFinished
        /\ "Polling error:" \in console
        /\ cycles = EmptyBag

(***************************************************************************)
(* C5: every log entry displayed after one poll cycle is still displayed   *)
(* after every later poll cycle of the run: a poll cycle only adds to the  *)
(* displayed log list.                                                     *)
(***************************************************************************)
C5_DisplayedLogsOnlyGrow ==
    [][(\E c \in BagToSet(cycles) : DeliverLogs(c)) => logs \subseteq logs']_vars

(***************************************************************************)
(* C6: unmounting the view leaves every active interval timer active, and  *)
(* while the view is unmounted an active timer can still fire and send the *)
(* jobs request.                                                           *)
(***************************************************************************)
C6_TimerSurvivesUnmount ==
    /\ [][Unmount => \A r \in Runs : TimerActive(r) => TimerActive(r)']_vars
    /\ [](\A r \in Runs :
            (~mounted /\ TimerActive(r) /\ InFlight(r) < MaxInFlight)
                => ENABLED Tick(r))

\* the view is gone, the job is still running, and the timer has fired and
\* a cycle has called getJobLogs since the view was removed
C6_Witness ==
    /\ ~mounted /\ tickedUnmounted
    /\ LatestJobStatus = "running"
    /\ \E r \in Runs : TimerActive(r)
    /\ \E c \in BagToSet(cycles) : c.pc = "logsSent"

(***************************************************************************)
(* C7: the only step that clears an interval timer is a poll cycle of its  *)
(* run that observes a terminal status; no user action and no failed or    *)
(* non-terminal cycle stops it, and as long as it is active it can fire.   *)
(***************************************************************************)
C7_OnlyTerminalCycleClearsTimer ==
    /\ [][\A r \in Runs :
            (TimerActive(r) /\ ~TimerActive(r)') => TerminalObserved(r)]_vars
    /\ [](\A r \in Runs :
            (mounted /\ TimerActive(r) /\ InFlight(r) < MaxInFlight)
                => ENABLED Tick(r))

\* the timer is still active after a failed cycle and after a cycle that
\* displayed the logs of a running job
C7_Witness ==
    /\ mounted
    /\ \E r \in Runs : TimerActive(r)
    /\ "Polling error:" \in console
    /\ logs # {}
    /\ LatestJobStatus = "running"

(***************************************************************************)
(* C8: every backend request that fails while the view is mounted is       *)
(* surfaced to the operator: the step that handles the failure leaves a    *)
(* blocking alert open or an error banner displayed.                       *)
(***************************************************************************)
C8_EveryFailureSurfaced ==
    [][(mounted /\ RequestFails)
          => (alert' # NoAlert \/ (BannerDisplayed' /\ message'.type = "error"))]_vars

(***************************************************************************)
(* C9, as claimed: after a jobs or logs request of a poll cycle has        *)
(* failed, no jobs or logs request is sent without a user action (no user  *)
(* action of the view sends one).                                          *)
(***************************************************************************)
C9_NoPollRequestAfterPollFailure ==
    [][((\E r \in Runs : Tick(r) \/ GetJobLogsCalled(r)))
          => "Polling error:" \notin console]_vars

(***************************************************************************)
(* C9, amended: the handling of a failed request sends no request: the     *)
(* failed request is closed and nothing is sent in its place. A failed     *)
(* poll cycle leaves the interval timer as it is, so the next tick sends   *)
(* the jobs request again.                                                 *)
(***************************************************************************)
C9_FailureHandlerSendsNothing ==
    [][RequestFails
          => /\ OpenRequests' = OpenRequests - 1
             /\ \A r \in Runs : TimerActive(r) <=> TimerActive(r)']_vars

\* a tick has sent the jobs request again after a failed poll cycle
C9_Witness ==
    /\ "Polling error:" \in console
    /\ \E c \in BagToSet(cycles) : c.pc = "jobsSent"
    /\ \E r \in Runs : TimerActive(r)

(***************************************************************************)
(* C2: pressing Save in edit mode without having changed a field sends no  *)
(* updateRecipe request.                                                   *)
(***************************************************************************)
C2_SaveWithoutChangeSendsNothing ==
    [][(handleSave /\ edits = 0) => updateReqs' = updateReqs]_vars

(***************************************************************************)
(* C3: a Save that follows a change sends exactly the changed fields: the  *)
(* keys of the request are the fields whose value differs from the         *)
(* selected recipe's.                                                      *)
(***************************************************************************)
C3_SentKeysAreChangedKeys ==
    [][(handleSave /\ edits > 0)
          => \A req \in SentUpdates : DOMAIN req.fields = ChangedFields]_vars

(***************************************************************************)
(* C10, as claimed: a search with a non-empty query leaves page at 0 and   *)
(* filter at the empty 'All Status' value.                                 *)
(***************************************************************************)
C10_SearchResetsPageAndFilter ==
    [][(handleSearch /\ Trim(searchQuery) # "") => (page' = 0 /\ filter' = "")]_vars

(***************************************************************************)
(* C10, amended: no step of a search (starting it, its response, its       *)
(* failure, clearing it) changes page or filter, and while the search      *)
(* results are shown the filter select and the pagination buttons are not  *)
(* rendered, so page and filter keep the values they had before the        *)
(* search.                                                                 *)
(***************************************************************************)
C10_SearchKeepsPageAndFilter ==
    [][(isSearching \/ isSearching') => (page' = page /\ filter' = filter)]_vars

\* the results of a search are shown while the list is on its second page
C10_Witness ==
    /\ isSearching /\ ~loading
    /\ searchResults # <<>>
    /\ page = 1 /\ filter = ""

(***************************************************************************)
(* C11: once every list request has been answered, the Next button takes   *)
(* the list to the next page only if the page the backend returns for the  *)
(* current page and filter is full: the page index never advances past a   *)
(* page of fewer than PAGE_SIZE recipes.                                   *)
(***************************************************************************)
C11_NextNeverPassesShortPage ==
    [][(NextPage /\ listReqs = EmptyBag /\ "Failed to load recipes:" \notin console)
          => Len(ListResponse(page * PAGE_SIZE, PAGE_SIZE, filter)) >= PAGE_SIZE]_vars

(***************************************************************************)
(* C12: when updateRecipe fails, the step that handles the failure opens   *)
(* the 'Failed to update' alert, closes the request and sends nothing, and *)
(* leaves edit mode and the overlay as they are; dismissing that alert     *)
(* changes nothing else either.                                            *)
(***************************************************************************)
C12_FailedSaveKeepsEditor ==
    /\ [][\A req \in BagToSet(updateReqs) :
            UpdateFail(req)
                => /\ alert'.text = "Failed to update"
                   /\ updateReqs' = updateReqs (-) SetToBag({req})
                   /\ listReqs' = listReqs
                   /\ isEditing' = isEditing
                   /\ editedFields' = editedFields]_vars
    /\ [][(DismissAlert /\ alert.text = "Failed to update")
            => /\ updateReqs' = updateReqs
               /\ listReqs' = listReqs
               /\ isEditing' = isEditing
               /\ editedFields' = editedFields]_vars

\* the failure alert is open over an editor that still holds an edited overlay
C12_Witness ==
    /\ alert.text = "Failed to update"
    /\ isEditing /\ edits > 0
    /\ editedFields # EmptyObject
    /\ updateReqs = EmptyBag /\ listReqs = EmptyBag

(***************************************************************************)
(* C13: handleSave sends no list request before the update response; after *)
(* a successful update (once the success alert is dismissed) edit mode is  *)
(* left, the overlay is emptied and one listRecipes request is sent.       *)
(***************************************************************************)
C13_SuccessfulSaveReloadsList ==
    /\ [][handleSave => listReqs' = listReqs]_vars
    /\ [][\A req \in BagToSet(updateReqs) :
            UpdateOk(req) => (listReqs' = listReqs /\ alert'.cont = "saved")]_vars
    /\ [][(DismissAlert /\ alert.cont = "saved")
            => /\ ~isEditing'
               /\ editedFields' = EmptyObject
               /\ BagCardinality(listReqs') = BagCardinality(listReqs) + 1]_vars

\* the update was applied, the editor is back in view mode with an empty
\* overlay and the reload is in flight
C13_Witness ==
    /\ saves = 1 /\ updateReqs = EmptyBag /\ alert = NoAlert
    /\ ~isEditing /\ editedFields = EmptyObject
    /\ listReqs # EmptyBag /\ loading

(***************************************************************************)
(* C14: an edit (a step that adds to the overlay) changes editedFields     *)
(* only: the selected recipe, the loaded list and the search results are   *)
(* left as they are.                                                       *)
(***************************************************************************)
C14_EditChangesOverlayOnly ==
    [][(edits' = edits + 1)
          => /\ selectedRecipe' = selectedRecipe
             /\ recipes' = recipes
             /\ searchResults' = searchResults
             /\ db' = db]_vars

\* the overlay holds an ingredient list that differs from the selected
\* recipe's, which is still the list's entry
C14_Witness ==
    /\ isEditing /\ edits > 0
    /\ "ingredients" \in DOMAIN editedFields
    /\ editedFields.ingredients # selectedRecipe.ingredients
    /\ \E i \in 1..Len(recipes) : recipes[i] = selectedRecipe

(***************************************************************************)
(* C18: a poll cycle whose jobs response carried a terminal status clears  *)
(* the timer and resets isGenerating when the cycle ends, also when its    *)
(* logs request fails.                                                     *)
(***************************************************************************)
C18_TerminalCycleStopsEvenIfLogsFail ==
    [][\A c \in BagToSet(cycles) :
          ((DeliverLogs(c) \/ FailLogs(c)) /\ c.status \in TerminalStatuses)
              => (~TimerActive(c.run)' /\ ~isGenerating')]_vars

(***************************************************************************)
(* C19: when the start request fails, the run gets no timer, isGenerating  *)
(* becomes false and an error message is set; a run whose start failed     *)
(* stays failed: the request is not sent again and no poll cycle of it     *)
(* ever exists.                                                            *)
(***************************************************************************)
C19_FailedStartCreatesNoTimer ==
    /\ [][\A r \in Runs :
            StartFail(r)
                => /\ ~TimerActive(r)' /\ runs'[r] # "starting"
                   /\ ~isGenerating'
                   /\ message'.type = "error"]_vars
    /\ [][\A r \in Runs : runs[r] = "startFailed" => runs'[r] = "startFailed"]_vars
    /\ [](\A r \in Runs : runs[r] = "startFailed" => InFlight(r) = 0)

\* the start failed, the backend is reachable again and nothing is in flight
C19_Witness ==
    /\ \E r \in Runs : runs[r] = "startFailed"
    /\ ~isGenerating /\ message.type = "error"
    /\ netUp /\ cycles = EmptyBag

(***************************************************************************)
(* C15: the backend accepts an update whatever the record holds (no        *)
(* version or conflict check), and after an update is applied every field  *)
(* of the request has the request's value: of two sessions' updates of the *)
(* same recipe, the one applied last decides the fields both carry.        *)
(***************************************************************************)
C15_LastWriteWins ==
    /\ [](\A req \in BagToSet(updateReqs) :
            /\ DOMAIN req = {"id", "fields", "page", "filter"}
            /\ alert = NoAlert => ENABLED UpdateOk(req))
    /\ [][\A req \in BagToSet(updateReqs) :
            UpdateOk(req)
                => \A k \in DOMAIN req.fields : db'[req.id][k] = req.fields[k]]_vars
    /\ [][OtherSessionUpdate
            => \A k \in DOMAIN OtherSessionFields : db'[1][k] = OtherSessionFields[k]]_vars

\* the other session's update was applied first, then this session's: the
\* name both carry is this session's, the image URL only the other carries
\* is the other session's
C15_Witness ==
    /\ alert.cont = "saved" /\ saves = 1
    /\ db[1].image_url = OtherSessionFields.image_url
    /\ db[1].name # OtherSessionFields.name

(***************************************************************************)
(* C16: the record shown after a recipe is selected is the record the      *)
(* backend holds for that id at that moment.                               *)
(***************************************************************************)
C16_SelectShowsBackendRecord ==
    [][\A i \in ClickPositions :
          SelectRecipe(i) => selectedRecipe' = db[selectedRecipe'.id]]_vars

(***************************************************************************)
(* C21: every updateRecipe request that Save sends carries the id of the   *)
(* recipe that was selected when Edit was pressed, the recipe the overlay  *)
(* was initialised from.                                                   *)
(***************************************************************************)
C21_SaveTargetsEditedRecipe ==
    [][\A req \in SentUpdates : req.id = editOrigin]_vars

(***************************************************************************)
(* C23: a poll cycle runs the terminal branch (clears the timer, resets    *)
(* isGenerating and sets the success or failure message) only on the       *)
(* status of the job that the run's own start request created.             *)
(***************************************************************************)
C23_RunEndsOnOwnJobOnly ==
    [][\A c \in BagToSet(cycles) :
          (DeliverLogs(c) /\ c.status \in TerminalStatuses)
             => c.job = runJob[c.run]]_vars

(***************************************************************************)
(* C24: once every listRecipes request has been answered (and none has     *)
(* failed), the loaded list is the backend's page for the current page and *)
(* filter.                                                                 *)
(***************************************************************************)
C24_ListIsCurrentPage ==
    (listReqs = EmptyBag /\ "Failed to load recipes:" \notin console)
       => recipes = ListResponse(page * PAGE_SIZE, PAGE_SIZE, filter)

(***************************************************************************)
(* C27: loading is true whenever a listRecipes or a searchRecipes request  *)
(* is in flight.                                                           *)
(***************************************************************************)
C27_LoadingWhileRequestInFlight ==
    (listReqs # EmptyBag \/ searchReqs # EmptyBag) => loading

(***************************************************************************)
(* C29: when a poll cycle runs the terminal branch, the message type is    *)
(* 'success' iff the status it observed is 'completed', and 'failed' and   *)
(* 'cancelled' both give the error message 'Generation failed. Check logs  *)
(* for details.'; a cycle that observed a non-terminal status, and every   *)
(* other step of a cycle, leaves message and isGenerating as they are.     *)
(***************************************************************************)
C29_MessageMatchesObservedStatus ==
    [][\A c \in BagToSet(cycles) :
          /\ (DeliverLogs(c) /\ c.status \in TerminalStatuses) =>
                /\ message'.type = "success" <=> c.status = "completed"
                /\ c.status \in {"failed", "cancelled"} =>
                      message' = [type |-> "error",
                                  text |-> "Generation failed. Check logs for details."]
                /\ ~isGenerating'
          /\ (DeliverLogs(c) /\ c.status \notin TerminalStatuses) =>
                UNCHANGED <<message, isGenerating>>
          /\ (ServeJobs(c) \/ FailJobs(c) \/ DeliverJobs(c) \/ ServeLogs(c)
                  \/ FailLogs(c)) =>
                UNCHANGED <<message, isGenerating>>]_vars

C29_Witness ==
    /\ \E r \in DOMAIN runs : runs[r] = "cleared" /\ jobs[runJob[r]] = "cancelled"
    /\ ~isGenerating
    /\ message = [type |-> "error",
                  text |-> "Generation failed. Check logs for details."]

(***************************************************************************)
(* Specification of the DataManagerTab.                                    *)
(***************************************************************************)
NextDM ==
    \/ \E f \in FilterInputs : SetFilter(f)
    \/ PrevPage
    \/ NextPage
    \/ \E req \in BagToSet(listReqs) : ListOk(req)
    \/ \E req \in BagToSet(listReqs) : ListFail(req)
    \/ StatsOk
    \/ StatsFail
    \/ \E q \in QueryInputs : SetSearchQuery(q)
    \/ handleSearch
    \/ \E q \in BagToSet(searchReqs) : SearchOk(q)
    \/ \E q \in BagToSet(searchReqs) : SearchFail(q)
    \/ clearSearch
    \/ DismissAlert

SpecDM == Init /\ [][NextDM]_vars

(***************************************************************************)
(* Specification of the recipe editor of the DataManagerTab: the first     *)
(* page of the list and the statistics have been loaded.                   *)
(***************************************************************************)
InitEdit ==
    /\ netUp = TRUE /\ jobs = <<>> /\ jobLogs = <<>> /\ console = {}
    /\ mounted = TRUE /\ sgSelectedRecipe = "null" /\ fix = {}
    /\ isGenerating = FALSE /\ logs = {} /\ message = NoMessage
    /\ runs = [r \in Runs |-> "unused"] /\ cycles = EmptyBag
    /\ runJob = [r \in Runs |-> 0]
    /\ startReq = [r \in Runs |-> NoRequest]
    /\ tickedUnmounted = FALSE
    /\ sgSearchQuery = "" /\ sgSearchResults = <<>> /\ sgIsSearching = FALSE
    /\ db = [i \in 1..NumRecipes |-> InitialRecipe(i)]
    /\ recipes = [k \in 1..PAGE_SIZE |-> InitialRecipe(k)]
    /\ statistics = [total_recipes |-> NumRecipes, main_images |-> NumRecipes,
                     loaded |-> TRUE]
    /\ selectedRecipe = NoRecipe
    /\ isEditing = FALSE
    /\ editedFields = EmptyObject
    /\ page = 0
    /\ loading = FALSE
    /\ filter = ""
    /\ searchQuery = ""
    /\ searchResults = <<>>
    /\ isSearching = FALSE
    /\ alert = NoAlert
    /\ listReqs = EmptyBag
    /\ statsReqs = 0
    /\ searchReqs = EmptyBag
    /\ updateReqs = EmptyBag
    /\ edits = 0
    /\ saves = 0
    /\ imgSrc = <<>>
    /\ step = "preferences" /\ sessionId = "" /\ recommendations = ""
    /\ editOrigin = 0

NextEdit ==
    \/ \E i \in ClickPositions : SelectRecipe(i)
    \/ Edit
    \/ Cancel
    \/ \E k \in TextKeys : \E v \in TextInputs(k) : ChangeText(k, v)
    \/ \E k \in IntKeys, str \in NumberInputs : ChangeInt(k, str)
    \/ \E str \in NumberInputs : ChangeRating(str)
    \/ \E k \in {"image_url", "ingredients_image"} : RemoveImage(k)
    \/ AddIngredient
    \/ \E idx \in 1..2, v \in {"dal", "ghee"} : ChangeIngredientName(idx, v)
    \/ \E idx \in 1..2 : ChangeIngredientQuantity(idx, "2")
    \/ \E idx \in 1..2 : DeleteIngredient(idx)
    \/ AddStepImage
    \/ \E idx \in 1..2 : ChangeStepImage(idx, "http://img/s2")
    \/ \E idx \in 1..2 : DeleteStepImage(idx)
    \/ handleSave
    \/ \E req \in BagToSet(updateReqs) : UpdateOk(req)
    \/ \E req \in BagToSet(updateReqs) : UpdateFail(req)
    \/ \E req \in BagToSet(listReqs) : ListOk(req)
    \/ \E req \in BagToSet(listReqs) : ListFail(req)
    \/ DismissAlert
    \/ OtherSessionUpdate

SpecEdit == InitEdit /\ [][NextEdit]_vars

(***************************************************************************)
(* Specification of the SpecificGenerationTab's search: the tab as it is   *)
(* constructed, the operator searches, selects and ticks options.          *)
(***************************************************************************)
InitSearch ==
    /\ netUp = TRUE /\ jobs = <<>> /\ jobLogs = <<>> /\ console = {}
    /\ mounted = TRUE /\ sgSelectedRecipe = "null" /\ fix = {}
    /\ isGenerating = FALSE /\ logs = {} /\ message = NoMessage
    /\ runs = [r \in Runs |-> "unused"] /\ cycles = EmptyBag
    /\ runJob = [r \in Runs |-> 0]
    /\ startReq = [r \in Runs |-> NoRequest]
    /\ tickedUnmounted = FALSE
    /\ sgSearchQuery = "" /\ sgSearchResults = <<>> /\ sgIsSearching = FALSE
    /\ db = [i \in 1..NumRecipes |-> InitialRecipe(i)]
    /\ recipes = <<>> /\ statistics = NoStatistics
    /\ selectedRecipe = NoRecipe /\ isEditing = FALSE /\ editedFields = EmptyObject
    /\ page = 0 /\ loading = FALSE /\ filter = ""
    /\ searchQuery = "" /\ searchResults = <<>> /\ isSearching = FALSE
    /\ alert = NoAlert
    /\ listReqs = EmptyBag /\ statsReqs = 0
    /\ searchReqs = EmptyBag /\ updateReqs = EmptyBag
    /\ edits = 0 /\ saves = 0
    /\ imgSrc = <<>>
    /\ step = "preferences" /\ sessionId = "" /\ recommendations = ""
    /\ editOrigin = 0

NextSearch ==
    \/ \E q \in SgQueryInputs : sgSetSearchQuery(q)
    \/ sgHandleSearch
    \/ sgSearchOk
    \/ sgSearchFail
    \/ \E i \in 1..Len(sgSearchResults) : sgSelectRecipe(i)
    \/ \E o \in FixOptions : ToggleOption(o)
    \/ NetFlip

SpecSearch == InitSearch /\ [][NextSearch]_vars

(***************************************************************************)
(* C20: when a search of the generation tab fails or finds no recipe, the  *)
(* error message is displayed as a banner, whether or not a recipe has     *)
(* been selected.                                                          *)
(***************************************************************************)
C20_SearchErrorIsDisplayed ==
    [][(sgSearchFail \/ (sgSearchOk /\ Len(sgSearchResults') = 0))
          => (BannerDisplayed' /\ message'.type = "error")]_vars

(***************************************************************************)
(* Specification of the images of the recipe details: the first page of    *)
(* the list has been loaded, and the second recipe carries a main image,   *)
(* an ingredients image and two step images.                               *)
(***************************************************************************)
RecipeWithImages(i) ==
    Spread(InitialRecipe(i),
           [image_url |-> "http://img/m",
            ingredients_image |-> "http://img/i",
            step_image_urls |-> << "http://img/s1", "http://img/s2" >>])

ImagesDb == [i \in 1..NumRecipes |->
                IF i = 2 THEN RecipeWithImages(i) ELSE InitialRecipe(i)]

InitImages ==
    /\ netUp = TRUE /\ jobs = <<>> /\ jobLogs = <<>> /\ console = {}
    /\ mounted = TRUE /\ sgSelectedRecipe = "null" /\ fix = {}
    /\ isGenerating = FALSE /\ logs = {} /\ message = NoMessage
    /\ runs = [r \in Runs |-> "unused"] /\ cycles = EmptyBag
    /\ runJob = [r \in Runs |-> 0]
    /\ startReq = [r \in Runs |-> NoRequest]
    /\ tickedUnmounted = FALSE
    /\ sgSearchQuery = "" /\ sgSearchResults = <<>> /\ sgIsSearching = FALSE
    /\ db = ImagesDb
    /\ recipes = [k \in 1..PAGE_SIZE |-> ImagesDb[k]]
    /\ statistics = [total_recipes |-> NumRecipes, main_images |-> NumRecipes,
                     loaded |-> TRUE]
    /\ selectedRecipe = NoRecipe /\ isEditing = FALSE /\ editedFields = EmptyObject
    /\ page = 0 /\ loading = FALSE /\ filter = ""
    /\ searchQuery = "" /\ searchResults = <<>> /\ isSearching = FALSE
    /\ alert = NoAlert
    /\ listReqs = EmptyBag /\ statsReqs = 0
    /\ searchReqs = EmptyBag /\ updateReqs = EmptyBag
    /\ edits = 0 /\ saves = 0
    /\ imgSrc = EmptyObject
    /\ step = "preferences" /\ sessionId = "" /\ recommendations = ""
    /\ editOrigin = 0

NextImages ==
    \/ \E i \in ClickPositions : SelectRecipe(i)
    \/ Edit
    \/ Cancel
    \/ \E k \in {"image_url", "ingredients_image"} :
          \E v \in TextInputs(k) : ChangeText(k, v)
    \/ \E k \in {"image_url", "ingredients_image"} : RemoveImage(k)
    \/ AddStepImage
    \/ \E idx \in 1..2 : ChangeStepImage(idx, "http://img/s2")
    \/ \E idx \in 1..2 : DeleteStepImage(idx)
    \/ \E el \in RenderedImages : onError(el)

SpecImages == InitImages /\ [][NextImages]_vars

(***************************************************************************)
(* C17: every image the recipe details render, in view mode and in edit    *)
(* mode, has an onError handler (while its own src is shown, the handler   *)
(* can run), and the handler replaces the image's source by the inline     *)
(* placeholder and does nothing else: no alert is opened, nothing is       *)
(* logged, and the recipe, the overlay and the other images stay as they   *)
(* are.                                                                    *)
(***************************************************************************)
C17_FailedImageShowsPlaceholder ==
    /\ [](\A el \in RenderedImages :
             (alert = NoAlert /\ el \notin DOMAIN imgSrc) => ENABLED onError(el))
    /\ [][\A el \in RenderedImages :
             onError(el) =>
                /\ DisplayedSrc(el)' = Placeholder(el.kind)
                /\ DisplayedSrc(el)'.scheme = "data:image/svg+xml"
                /\ \A other \in RenderedImages \ {el} :
                      DisplayedSrc(other)' = DisplayedSrc(other)
                /\ RenderedImages' = RenderedImages
                /\ alert' = NoAlert /\ console' = console
                /\ UNCHANGED <<selectedRecipe, editedFields, isEditing>>]_vars

C17_Witness ==
    /\ isEditing
    /\ {Img("mainEdit", 0), Img("stepEdit", 1), Img("statusIngredients", 0),
        Img("statusStep", 2)} \subseteq DOMAIN imgSrc
    /\ \A el \in DOMAIN imgSrc : DisplayedSrc(el) = Placeholder(el.kind)

(***************************************************************************)
(* Specification of successive generation runs: the operator can press     *)
(* Start again once isGenerating is false, while poll cycles of an earlier *)
(* run are still in flight.                                                *)
(***************************************************************************)
\* number of times Start can be pressed
MaxStarts == 2

Starts == 1..MaxStarts

InitRuns ==
    /\ netUp = TRUE /\ jobs = <<>> /\ jobLogs = <<>> /\ console = {}
    /\ mounted = TRUE /\ sgSelectedRecipe = "Dal" /\ fix = {"fixMainImage"}
    /\ isGenerating = FALSE /\ logs = {} /\ message = NoMessage
    /\ runs = [r \in Starts |-> "unused"] /\ cycles = EmptyBag
    /\ runJob = [r \in Starts |-> 0]
    /\ startReq = [r \in Starts |-> NoRequest]
    /\ tickedUnmounted = FALSE
    /\ sgSearchQuery = "Dal" /\ sgSearchResults = <<"Dal">> /\ sgIsSearching = FALSE
    /\ db = [i \in 1..NumRecipes |-> InitialRecipe(i)]
    /\ recipes = <<>> /\ statistics = NoStatistics
    /\ selectedRecipe = NoRecipe /\ isEditing = FALSE /\ editedFields = EmptyObject
    /\ page = 0 /\ loading = FALSE /\ filter = ""
    /\ searchQuery = "" /\ searchResults = <<>> /\ isSearching = FALSE
    /\ alert = NoAlert
    /\ listReqs = EmptyBag /\ statsReqs = 0
    /\ searchReqs = EmptyBag /\ updateReqs = EmptyBag
    /\ edits = 0 /\ saves = 0
    /\ imgSrc = EmptyObject /\ editOrigin = 0
    /\ step = "preferences" /\ sessionId = "" /\ recommendations = ""

NextRuns ==
    \/ \E r \in Starts : handleGenerate(r)
    \/ \E r \in Starts : StartOk(r)
    \/ \E r \in Starts : StartFail(r)
    \/ \E r \in Starts : Tick(r)
    \/ \E c \in BagToSet(cycles) : ServeJobs(c)
    \/ \E c \in BagToSet(cycles) : FailJobs(c)
    \/ \E c \in BagToSet(cycles) : DeliverJobs(c)
    \/ \E c \in BagToSet(cycles) : ServeLogs(c)
    \/ \E c \in BagToSet(cycles) : FailLogs(c)
    \/ \E c \in BagToSet(cycles) : DeliverLogs(c)
    \/ \E j \in 1..MaxJobs, s \in JobStatuses : JobEnds(j, s)
    \/ NetFlip

SpecRuns == InitRuns /\ [][NextRuns]_vars

(***************************************************************************)
(* C22: at most one interval timer is active at any time, and isGenerating *)
(* is true whenever a timer is active.                                     *)
(***************************************************************************)
C22_OneTimerAndGenerating ==
    /\ Cardinality({r \in DOMAIN runs : TimerActive(r)}) <= 1
    /\ (\E r \in DOMAIN runs : TimerActive(r)) => isGenerating

(***************************************************************************)
(* Specification of the recipe editor with this session as the only        *)
(* writer of the recipe table.                                             *)
(***************************************************************************)
NextSave ==
    \/ \E i \in ClickPositions : SelectRecipe(i)
    \/ Edit
    \/ Cancel
    \/ \E k \in TextKeys : \E v \in TextInputs(k) : ChangeText(k, v)
    \/ \E k \in IntKeys, str \in NumberInputs : ChangeInt(k, str)
    \/ \E str \in NumberInputs : ChangeRating(str)
    \/ \E k \in {"image_url", "ingredients_image"} : RemoveImage(k)
    \/ AddIngredient
    \/ \E idx \in 1..2, v \in {"dal", "ghee"} : ChangeIngredientName(idx, v)
    \/ \E idx \in 1..2 : ChangeIngredientQuantity(idx, "2")
    \/ \E idx \in 1..2 : DeleteIngredient(idx)
    \/ AddStepImage
    \/ \E idx \in 1..2 : ChangeStepImage(idx, "http://img/s2")
    \/ \E idx \in 1..2 : DeleteStepImage(idx)
    \/ handleSave
    \/ \E req \in BagToSet(updateReqs) : UpdateOk(req)
    \/ \E req \in BagToSet(updateReqs) : UpdateFail(req)
    \/ \E req \in BagToSet(listReqs) : ListOk(req)
    \/ \E req \in BagToSet(listReqs) : ListFail(req)
    \/ DismissAlert

SpecSave == InitEdit /\ [][NextSave]_vars

(***************************************************************************)
(* C25: after a successful Save and the reload of the list that follows    *)
(* it (no request in flight, no alert open, no load failed), the selected  *)
(* recipe shown in the details panel has the values of the backend's       *)
(* record of that id.                                                      *)
(***************************************************************************)
C25_DetailsShowSavedValues ==
    (/\ saves > 0 /\ updateReqs = EmptyBag /\ listReqs = EmptyBag
     /\ alert = NoAlert /\ ~isEditing
     /\ selectedRecipe # NoRecipe
     /\ "Failed to load recipes:" \notin console)
       => \A k \in DOMAIN selectedRecipe :
             selectedRecipe[k] = db[selectedRecipe.id][k]

(***************************************************************************)
(* Specification of the SpecificGenerationTab from its construction to the *)
(* start request: the operator searches, selects a recipe, ticks options   *)
(* and presses Start.                                                      *)
(***************************************************************************)
NextStart ==
    \/ \E q \in SgQueryInputs : sgSetSearchQuery(q)
    \/ sgHandleSearch
    \/ sgSearchOk
    \/ sgSearchFail
    \/ \E i \in 1..Len(sgSearchResults) : sgSelectRecipe(i)
    \/ \E o \in FixOptions : ToggleOption(o)
    \/ \E r \in Runs : handleGenerate(r)
    \/ \E r \in Runs : StartOk(r)
    \/ \E r \in Runs : StartFail(r)
    \/ NetFlip

SpecStart == InitSearch /\ [][NextStart]_vars

(***************************************************************************)
(* C26: Start sends its request only with a recipe selected and at least   *)
(* one fix flag true, the request carries the selected recipe's name and   *)
(* the flags as they are when Start is pressed, and no step changes a flag *)
(* while isGenerating is true.                                             *)
(***************************************************************************)
C26_StartRequestIsWellFormed ==
    /\ [][\A r \in DOMAIN runs :
             handleGenerate(r) =>
                /\ sgSelectedRecipe # "null"
                /\ fix # {}
                /\ startReq'[r] = [recipe_name |-> sgSelectedRecipe, fix |-> fix]]_vars
    /\ [](\A r \in DOMAIN runs :
             runs[r] # "unused" =>
                startReq[r].recipe_name # "null" /\ startReq[r].fix # {})
    /\ [][isGenerating => fix' = fix]_vars

C26_Witness ==
    /\ isGenerating
    /\ \E r \in DOMAIN runs :
          /\ runs[r] = "starting"
          /\ startReq[r].recipe_name = "Dal"
          /\ Cardinality(startReq[r].fix) = 2
          /\ startReq[r].fix = fix

(***************************************************************************)
(* PreferencesPage                                                         *)
(***************************************************************************)
\* the session ids and recommendation texts the preferences form can pass
SessionIdInputs == {"", "s1", "s2", "s3", "s4", "s5", "s6", "s7", "s8", "s9"}

RecommendationInputs == {"", "r1", "r2", "r3", "r4", "r5", "r6", "r7", "r8", "r9"}

\* {step === "preferences" && <PreferencesForm onSubmit={handlePreferencesSubmit} />}
FormRendered == step = "preferences"

\* {step === "chat" && sessionId && <ChatInterface ... />}
ChatRendered == step = "chat" /\ sessionId # ""

\* the form calls onSubmit(newSessionId, newRecommendations)
handlePreferencesSubmit(newSessionId, newRecommendations) ==
    /\ FormRendered
    /\ sessionId' = newSessionId
    /\ recommendations' = newRecommendations
    /\ step' = "chat"
    /\ UNCHANGED <<envVars, sgVars, dmVars>>

\* handleBackToPreferences is passed to no element: nothing calls it
handleBackToPreferences ==
    /\ step' = "preferences"
    /\ sessionId' = ""
    /\ recommendations' = ""
    /\ UNCHANGED <<envVars, sgVars, dmVars>>

NextPrefs ==
    \E newSessionId \in SessionIdInputs, newRecommendations \in RecommendationInputs :
        handlePreferencesSubmit(newSessionId, newRecommendations)

SpecPrefs == InitSearch /\ [][NextPrefs]_vars

(***************************************************************************)
(* C28: exactly one of the preferences form and the chat interface is      *)
(* rendered; the chat interface is rendered iff step is "chat", and when   *)
(* step is "chat" the sessionId is not empty.                              *)
(***************************************************************************)
C28_ExactlyOneViewRendered ==
    /\ FormRendered # ChatRendered
    /\ ChatRendered <=> step = "chat"
    /\ step = "chat" => sessionId # ""

====
